---------------------------- MODULE Spec2Model ----------------------------
(***************************************************************************)
(* Gesture volume control: the sense -> classify -> debounce -> act loop   *)
(* of facepp_gesture_volume_control.py (the CLI loop, identical in         *)
(* facepp_gesture_volume_control_v2.py) and of gesture_volume_app.py (the  *)
(* GUI: a UI thread and detection threads), and the response normalizer    *)
(* detect_thumbs_up.                                                       *)
(*                                                                         *)
(* Time is counted in whole seconds.  A tick reads time.time() and decides *)
(* the rate gate in the same instant: the clock does not advance between   *)
(* the gate and the start of the call it opens, it advances while a call   *)
(* is in flight, while a thread sleeps and between ticks.                  *)
(***************************************************************************)
EXTENDS Integers, Sequences, FiniteSets, Bags, TLC

\* ------------------------------------------------------------- constants

API_CALL_INTERVAL == 2

COOLDOWN_PERIOD == 1

\* gesture.get("thumb_up", 0) > 50
SCORE_THRESHOLD == 50

\* resp.status_code != 200
HTTP_OK == 200

\* the intervals are written to a tenth of a second (2.0, 1.0)
TenthsPerSecond == 10

\* ---------------------------------------------------------------- bounds

\* time.time() at process start (the epoch is far behind: StartTime >= API_CALL_INTERVAL)
StartTime == 3

\* the clock runs from StartTime to StartTime + Horizon
Horizon == 2

\* detection threads alive at once in the GUI
MaxThreads == 2

\* hand records in a generated document
MaxHands == 2

\* lines in a generated keys file
MaxLines == 3

\* positive detections in a sequence given to the cooldown gate
MaxDetections == 2

\* classification calls in a sequence of calls made one after the other
MaxCalls == 2

\* the latest tick time of such a sequence, in tenths of a second
MaxTenths == 21

MaxTime == StartTime + Horizon

\* ------------------------------------------------------- JSON documents
\* A Python value as the code sees it: its type and its content.  A str is
\* the sequence of its characters, a dict a function from its keys.

J_null == [t |-> "null", v |-> 0]

J_bool(b) == [t |-> "bool", v |-> b]

J_num(n) == [t |-> "num", v |-> n]

J_str(s) == [t |-> "str", v |-> s]

J_list(s) == [t |-> "list", v |-> s]

J_dict(f) == [t |-> "dict", v |-> f]

\* Python truthiness: bool(x)
Truthy(j) ==
  CASE j.t = "null" -> FALSE
    [] j.t = "bool" -> j.v
    [] j.t = "num"  -> j.v # 0
    [] j.t = "str"  -> Len(j.v) > 0
    [] j.t = "list" -> Len(j.v) > 0
    [] j.t = "dict" -> DOMAIN j.v # {}

\* a variant without the "or": the left operand alone
PyOrLeft(a, b) == a

\* a or b
PyOr(a, b) == IF Truthy(a) THEN a ELSE b

\* d.get(k, default) on a dict d
DictGet(d, k, default) == IF k \in DOMAIN d.v THEN d.v[k] ELSE default

\* the items "for hand in hands" visits: the elements of a list, the
\* characters of a str, the keys (strs) of a dict
IterItems(j) ==
  CASE j.t = "list" -> j.v
    [] j.t = "str"  -> [i \in 1..Len(j.v) |-> J_str(<<j.v[i]>>)]
    [] j.t = "dict" -> [i \in 1..Cardinality(DOMAIN j.v) |-> J_str(<<"k">>)]

Iterable(j) == j.t \in {"list", "str", "dict"}

UpperCase == <<"A","B","C","D","E","F","G","H","I","J","K","L","M",
               "N","O","P","Q","R","S","T","U","V","W","X","Y","Z">>

LowerCase == <<"a","b","c","d","e","f","g","h","i","j","k","l","m",
               "n","o","p","q","r","s","t","u","v","w","x","y","z">>

\* str.lower(), character by character
LowerChar(c) ==
  IF \E i \in 1..26 : UpperCase[i] = c
  THEN LowerCase[CHOOSE i \in 1..26 : UpperCase[i] = c]
  ELSE c

NotUnderscore(c) == c # "_"

NotSpace(c) == c # " "

\* gesture.lower().replace("_", "").replace(" ", "")
NormalizeLabel(s) ==
  SelectSeq(SelectSeq([i \in 1..Len(s) |-> LowerChar(s[i])], NotUnderscore), NotSpace)

ThumbLabels == { <<"t","h","u","m","b","u","p">>, <<"t","h","u","m","b","s","u","p">> }

\* ------------------------------------------------ detect_thumbs_up (CLI)
\* The result of a call is what it returns, "True" or "False", or the
\* exception it raises, "AttributeError" or "TypeError".

\* a variant that takes a score of 50 as a match
ScoreResultAtLeast(s) ==
  IF s.t = "num" THEN (IF s.v >= SCORE_THRESHOLD THEN "True" ELSE "continue")
  ELSE IF s.t = "bool" THEN "continue"
  ELSE "TypeError"

\* score > 50 for the value stored under thumb_up
ScoreResult(s) ==
  IF s.t = "num" THEN (IF s.v > SCORE_THRESHOLD THEN "True" ELSE "continue")
  ELSE IF s.t = "bool" THEN "continue"
  ELSE "TypeError"

\* hand.get("gesture") or hand.get("gesture_type") or hand.get("label")
GestureOf(hand) ==
  PyOr(PyOr(DictGet(hand, "gesture", J_null),
            DictGet(hand, "gesture_type", J_null)),
       DictGet(hand, "label", J_null))

\* a variant that reads the score under "thumbs_up"
CheckHandOtherKey(hand) ==
  IF hand.t # "dict" THEN "AttributeError"
  ELSE LET gesture == PyOr(PyOr(DictGet(hand, "gesture", J_null),
                                DictGet(hand, "gesture_type", J_null)),
                           DictGet(hand, "label", J_null))
       IN IF gesture.t = "dict"
          THEN ScoreResult(DictGet(gesture, "thumbs_up", J_num(0)))
          ELSE IF gesture.t = "str"
          THEN (IF NormalizeLabel(gesture.v) \in ThumbLabels THEN "True" ELSE "continue")
          ELSE "continue"

\* one pass of the loop body on a hand record: "True" (return True),
\* "continue" (next hand) or the exception raised
CheckHand(hand) ==
  IF hand.t # "dict" THEN "AttributeError"
  ELSE LET gesture == GestureOf(hand)
       IN IF gesture.t = "dict"
          THEN ScoreResult(DictGet(gesture, "thumb_up", J_num(0)))
          ELSE IF gesture.t = "str"
          THEN (IF NormalizeLabel(gesture.v) \in ThumbLabels THEN "True" ELSE "continue")
          ELSE "continue"

\* the value a result stands for: return True, return False, or no value
\* when an exception is raised
Returned(result) ==
  IF result = "True" THEN J_bool(TRUE)
  ELSE IF result = "False" THEN J_bool(FALSE)
  ELSE J_null

\* the confidence a caller can read from a returned value: a bool holds none
ConfidenceOf(value) ==
  IF value.t = "dict" /\ "confidence" \in DOMAIN value.v
  THEN value.v["confidence"]
  ELSE J_null

RECURSIVE CheckHands(_, _)
CheckHands(items, i) ==
  IF i > Len(items) THEN "False"
  ELSE LET r == CheckHand(items[i])
       IN IF r = "continue" THEN CheckHands(items, i + 1) ELSE r

\* hands = payload.get("hands") or payload.get("hand_gestures") or
\* payload.get("result") or [], and hands.get("hands", []) when it is a dict
HandsOf(payload) ==
  LET found == PyOr(PyOr(PyOr(DictGet(payload, "hands", J_null),
                              DictGet(payload, "hand_gestures", J_null)),
                         DictGet(payload, "result", J_null)),
                    J_list(<<>>))
  IN IF found.t = "dict" THEN DictGet(found, "hands", J_list(<<>>)) ELSE found

\* the function below "if not payload: return False"
DetectIn(payload) ==
  IF payload.t # "dict" THEN "AttributeError"
  ELSE LET hands == HandsOf(payload)
       IN IF ~Truthy(hands) THEN "False"
          ELSE IF ~Iterable(hands) THEN "TypeError"
          ELSE CheckHands(IterItems(hands), 1)

\* a variant without the guard on a payload that is None: payload.get raises
detect_thumbs_up_unguarded(payload) == DetectIn(payload)

detect_thumbs_up(payload) ==
  IF ~Truthy(payload) THEN "False" ELSE DetectIn(payload)

\* ------------------------------------------------ detect_thumbs_up (GUI)

\* hand.get("gesture") or {}
GuiGestureOf(hand) == PyOr(DictGet(hand, "gesture", J_null), J_dict(<<>>))

GuiCheckHand(hand) ==
  IF hand.t # "dict" THEN "AttributeError"
  ELSE LET gesture == GuiGestureOf(hand)
       IN IF gesture.t = "dict"
          THEN ScoreResult(DictGet(gesture, "thumb_up", J_num(0)))
          ELSE "continue"

RECURSIVE GuiCheckHands(_, _)
GuiCheckHands(items, i) ==
  IF i > Len(items) THEN "False"
  ELSE LET r == GuiCheckHand(items[i])
       IN IF r = "continue" THEN GuiCheckHands(items, i + 1) ELSE r

\* hands = payload.get("hands") or [], and hands.get("hands", []) when it
\* is a dict
GuiHandsOf(payload) ==
  LET found == PyOr(DictGet(payload, "hands", J_null), J_list(<<>>))
  IN IF found.t = "dict" THEN DictGet(found, "hands", J_list(<<>>)) ELSE found

gui_detect_thumbs_up(payload) ==
  IF ~Truthy(payload) THEN "False"
  ELSE IF payload.t # "dict" THEN "AttributeError"
  ELSE LET hands == GuiHandsOf(payload)
       IN IF ~Iterable(hands) THEN "TypeError"
          ELSE GuiCheckHands(IterItems(hands), 1)

\* ---------------------------------------------------- generated documents
\* The documents the normalizer is run on: hand records of every shape the
\* code tells apart, under every collection key and collection type.

LabelThumbUp == <<"T","h","u","m","b","_","U","p">>

LabelThumbsUp == <<"t","h","u","m","b","s"," ","u","p">>

LabelFist == <<"f","i","s","t">>

Scores(n) == J_dict("thumb_up" :> J_num(n))

HandKinds ==
  << J_dict("gesture" :> Scores(75)),
     J_dict("gesture" :> Scores(50)),
     J_dict("gesture" :> Scores(10)),
     J_dict("gesture" :> J_dict("heart" :> J_num(90))),
     J_dict("gesture" :> J_str(LabelThumbUp)),
     J_dict("gesture" :> J_str(LabelFist)),
     J_dict("gesture_type" :> Scores(75)),
     J_dict("label" :> J_str(LabelThumbsUp)),
     J_dict(<<>>),
     J_dict("gesture" :> J_num(5)),
     J_dict("gesture" :> J_dict("thumb_up" :> J_str(<<"h","i","g","h">>))),
     J_dict("gesture" :> J_dict("thumb_up" :> J_null)),
     J_str(<<"a","b">>),
     J_num(7),
     J_dict(("gesture" :> J_dict(<<>>)) @@ ("gesture_type" :> Scores(75))),
     J_dict(("gesture" :> Scores(10)) @@ ("label" :> J_str(LabelThumbsUp))) >>

HandIds == 1..Len(HandKinds)

HandSeqs == UNION { [1..n -> HandIds] : n \in 0..MaxHands }

CollKeys == {"hands", "hand_gestures", "result", "other"}

\* the value stored under the collection key
CollKinds == {"list", "wrapped", "str", "num", "null"}

TopKinds == {"None", "empty", "dict", "list", "two", "both"}

\* a shape: the payload's type, the key of the collection, the type of the
\* collection and the hand records in it
Shape(t, k, c, h) == [top |-> t, key |-> k, coll |-> c, hands |-> h]

\* the shapes that stand for a document
IsShape(sh) ==
  \/ /\ sh.top \in {"None", "empty", "list"}
     /\ sh.key = "hands" /\ sh.coll = "list" /\ sh.hands = <<>>
  \/ /\ sh.top = "dict"
     /\ \/ sh.coll \in {"list", "wrapped"}
        \/ sh.coll \in {"str", "num", "null"} /\ sh.hands = <<>>
  \/ /\ sh.top = "two"
     /\ sh.key \in {"hand_gestures", "result"}
     /\ sh.coll \in {"list", "null", "wrapped"}
  \/ /\ sh.top = "both"
     /\ sh.key \in {"hand_gestures", "result"}
     /\ sh.coll = "list"

HandList(h) == J_list([i \in 1..Len(h) |-> HandKinds[h[i]]])

CollValue(sh) ==
  CASE sh.coll = "list"    -> HandList(sh.hands)
    [] sh.coll = "wrapped" -> J_dict("hands" :> HandList(sh.hands))
    [] sh.coll = "str"     -> J_str(<<"a","b">>)
    [] sh.coll = "num"     -> J_num(3)
    [] sh.coll = "null"    -> J_null

\* a value under "hands" that is there and holds nothing: [], None or {}
HoldsNothing(coll) ==
  CASE coll = "list"    -> J_list(<<>>)
    [] coll = "null"    -> J_null
    [] coll = "wrapped" -> J_dict(<<>>)

\* the document of a shape; a shape "two" has under "hands" a value that
\* holds nothing and the hand records under a second key, a shape "both" has
\* under "hands" one hand with a low score and the hand records under a
\* second key
MkDoc(sh) ==
  CASE sh.top = "None" -> J_null
    [] sh.top = "empty" -> J_dict(<<>>)
    [] sh.top = "list" -> J_list(<<J_num(1)>>)
    [] sh.top = "dict" -> J_dict(sh.key :> CollValue(sh))
    [] sh.top = "two"  -> J_dict(("hands" :> HoldsNothing(sh.coll))
                                 @@ (sh.key :> HandList(sh.hands)))
    [] sh.top = "both" -> J_dict(("hands" :> HandList(<<3>>))
                                 @@ (sh.key :> HandList(sh.hands)))

\* ------------------------------------------------- the classification call
\* What the remote call meets: the JPEG encoding of the frame, the HTTP
\* exchange (requests.post raises on a network failure or a timeout), the
\* parse of the body (resp.json() raises on a body that is not JSON), the
\* status code and the parsed body.

ErrorKey == <<"e","r","r","o","r","_","m","e","s","s","a","g","e">>

Response(net, json, status, body) ==
  [net |-> net, json |-> json, status |-> status, body |-> body]

\* hands = [{"gesture": {"thumb_up": 75}}]
PositiveDoc == J_dict("hands" :> J_list(<<HandKinds[1]>>))

\* hands = [{"gesture": {"thumb_up": 10}}]
NegativeDoc == J_dict("hands" :> J_list(<<HandKinds[3]>>))

\* {"error_message": "..."}
ErrorDoc == J_dict("error_message" :> J_str(<<"b","a","d">>))

\* hands = ["ab"]: a hand record that is not a mapping
MalformedDoc == J_dict("hands" :> J_list(<<HandKinds[13]>>))

\* the replies of the service in the loop, by name
ReplyKinds == {"timeout", "non_json", "http_error", "error_message",
               "positive", "negative", "malformed"}

ReplyOf(kind) ==
  CASE kind = "timeout"       -> Response("raise", FALSE, 0, J_null)
    [] kind = "non_json"      -> Response("ok", FALSE, HTTP_OK, J_null)
    [] kind = "http_error"    -> Response("ok", TRUE, 500, ErrorDoc)
    [] kind = "error_message" -> Response("ok", TRUE, HTTP_OK, ErrorDoc)
    [] kind = "positive"      -> Response("ok", TRUE, HTTP_OK, PositiveDoc)
    [] kind = "negative"      -> Response("ok", TRUE, HTTP_OK, NegativeDoc)
    [] kind = "malformed"     -> Response("ok", TRUE, HTTP_OK, MalformedDoc)

\* "error_message" in payload: a key of a dict, an element of a list; a
\* TypeError on a value that is no container
HasErrorMessage(payload) ==
  CASE payload.t = "dict" -> "error_message" \in DOMAIN payload.v
    [] payload.t = "list" -> \E i \in 1..Len(payload.v) :
                               /\ payload.v[i].t = "str"
                               /\ payload.v[i].v = ErrorKey
    [] payload.t = "str"  -> \E i \in 0..Len(payload.v) :
                               /\ i + Len(ErrorKey) <= Len(payload.v)
                               /\ SubSeq(payload.v, i + 1, i + Len(ErrorKey)) = ErrorKey

\* how a call ends: "transport" (an exception of the request or of the
\* parse, or the frame was not encoded), "service" (a status other than 200
\* or an error_message field) or "payload" (the body is returned)
CallOutcome(encoded, resp) ==
  IF ~encoded \/ resp.net = "raise" \/ ~resp.json THEN "transport"
  ELSE IF resp.status # HTTP_OK THEN "service"
  ELSE IF resp.body.t \notin {"dict", "list", "str"} THEN "transport"
  ELSE IF HasErrorMessage(resp.body) THEN "service"
  ELSE "payload"

\* post_to_facepp_gesture: the payload, or None on every failure
post_to_facepp_gesture(encoded, resp) ==
  IF CallOutcome(encoded, resp) = "payload" THEN resp.body ELSE J_null

\* call_gesture_api of the GUI: the same, with cv2.imencode raising on a
\* frame that is None
call_gesture_api(frame, resp) ==
  IF CallOutcome(frame # "None", resp) = "payload" THEN resp.body ELSE J_null

\* what a call lets its caller know: the line printed ("-": none) and the
\* value returned
Report(printed, returned) == [printed |-> printed, returned |-> returned]

\* post_to_facepp_gesture of the CLI: "API error" is printed through
\* payload.get, which raises on a payload that is no dict; nothing is printed
\* when cv2.imencode gives ok = False
post_report(encoded, resp) ==
  LET out == CallOutcome(encoded, resp)
      printed == IF out = "payload" \/ ~encoded THEN "-"
                 ELSE IF out = "service" /\ resp.body.t = "dict" THEN "API error"
                 ELSE "Request error"
  IN Report(printed, post_to_facepp_gesture(encoded, resp))

\* call_gesture_api of the GUI: "except: pass", nothing is printed
gui_report(frame, resp) == Report("-", call_gesture_api(frame, resp))

\* ------------------------------------------------------ the credentials
\* The keys file: whether it exists, and the sequence of its lines, each a
\* sequence of characters.

LineKinds == { <<>>, <<" ">>, <<"k">>, <<" ", "k", " ">> }

KeyFiles == UNION { [1..n -> LineKinds] : n \in 0..MaxLines }

\* ln.strip()
RECURSIVE StripLeft(_)
StripLeft(l) == IF l # <<>> /\ Head(l) = " " THEN StripLeft(Tail(l)) ELSE l

RECURSIVE StripRight(_)
StripRight(l) ==
  IF l # <<>> /\ l[Len(l)] = " " THEN StripRight(SubSeq(l, 1, Len(l) - 1)) ELSE l

Strip(l) == StripRight(StripLeft(l))

NonEmpty(l) == l # <<>>

\* [ln.strip() for ln in p.read_text().splitlines() if ln.strip()]
StrippedLines(file) ==
  SelectSeq([i \in 1..Len(file) |-> Strip(file[i])], NonEmpty)

Credentials(k, s) == [api_key |-> k, api_secret |-> s]

\* self.api_key = None, self.api_secret = None
NoCredentials == Credentials(J_null, J_null)

\* the outcome of read_keys_from_file: the exception raised ("-": none)
\* and the pair returned
KeysRead(raised, k, s) == [raised |-> raised, keys |-> Credentials(k, s)]

\* a variant that keeps the blank lines
read_keys_from_file_unfiltered(exists, file) ==
  IF ~exists THEN KeysRead("FileNotFoundError", J_null, J_null)
  ELSE LET lines == [i \in 1..Len(file) |-> Strip(file[i])]
       IN IF Len(lines) < 2 THEN KeysRead("ValueError", J_null, J_null)
          ELSE KeysRead("-", J_str(lines[1]), J_str(lines[2]))

read_keys_from_file(exists, file) ==
  IF ~exists THEN KeysRead("FileNotFoundError", J_null, J_null)
  ELSE LET lines == StrippedLines(file)
       IN IF Len(lines) < 2 THEN KeysRead("ValueError", J_null, J_null)
          ELSE KeysRead("-", J_str(lines[1]), J_str(lines[2]))

\* load_credentials of the GUI: the attributes stay None unless the file
\* exists and holds two non-empty lines
load_credentials(exists, file) ==
  IF ~exists THEN NoCredentials
  ELSE LET lines == StrippedLines(file)
       IN IF Len(lines) >= 2 THEN Credentials(J_str(lines[1]), J_str(lines[2]))
          ELSE NoCredentials

\* not self.api_key or not self.api_secret
KeysMissing(k) == ~Truthy(k.api_key) \/ ~Truthy(k.api_secret)

\* ------------------------------------------------------------------ state

VARIABLES
  mode,               \* "cli": the CLI program, "gui": the app, "norm": the normalizer
                      \* alone, "gate": the cooldown gate alone, "call": the
                      \* classification call alone
  now,                \* time.time()
  threads,            \* the bag of the threads that run a loop, each with its
                      \* place (pc) and its current_time while its tick uses it
  last_api_call,
  last_trigger_time,
  camera_open,        \* the camera handle is held (cap / self.camera)
  is_running,         \* self.is_running
  current_frame,      \* self.current_frame: "unset" (no attribute), "None", "frame"
  stats,              \* self.stats: gestures_detected, volume_changes
  keys,               \* api_key and api_secret (self.api_key, self.api_secret)
  ui_pc,              \* the UI thread: "idle", or "starting" inside start_detection
  feed_pending,       \* an update_camera_feed callback is scheduled (root.after)
  ev,                 \* the classification call that started or ended, or the
                      \* volume action that was performed, in the last step
  lastStart,          \* start time of the latest classification call, kept while
                      \* less than API_CALL_INTERVAL old (0: none)
  lastFire,           \* real time of the latest volume action, kept while less
                      \* than COOLDOWN_PERIOD old (0: none)
  lastFailStart,      \* start time of the latest failed call, kept while less
                      \* than API_CALL_INTERVAL old (0: none)
  allPositive,        \* every classification so far returned a positive detection
  doc,                \* the shape of the document given to the normalizer
  verdict             \* the normalizers' results on it

vars == << mode, now, threads, last_api_call, last_trigger_time, camera_open,
           is_running, current_frame, stats, keys, ui_pc, feed_pending, ev,
           lastStart, lastFire, lastFailStart, allPositive, doc, verdict >>

loopVars == << now, threads, last_api_call, last_trigger_time, camera_open,
               is_running, current_frame, stats, keys, ui_pc, feed_pending, ev,
               lastStart, lastFire, lastFailStart, allPositive >>

guiVars == << is_running, current_frame, stats, keys, ui_pc, feed_pending >>

ghostVars == << lastStart, lastFire, lastFailStart, allPositive >>

normVars == << doc, verdict >>

\* a thread: where it is, and the current_time of its tick
Thread(p, t) == [pc |-> p, current_time |-> t]

Live == BagToSet(threads)

\* thread th goes on as th2
Becomes(th, th2) == (threads (-) SetToBag({th})) (+) SetToBag({th2})

\* thread th ends
Without(th) == threads (-) SetToBag({th})

\* the number of threads at place p
CountAt(b, p) ==
  LET at == { th \in BagToSet(b) : th.pc = p }
  IN BagCardinality([th \in at |-> b[th]])

\* the record of a step: the operation ("read": a camera read fails,
\* "call": a classification call starts, "return": one ends, "fire": the
\* volume action alone), the
\* outcome of the classification that ended in it, and what became of the
\* volume action
Event(op, out, act) == [op |-> op, out |-> out, act |-> act]

Quiet == Event("-", "-", "-")

ZeroStats == [gestures_detected |-> 0, volume_changes |-> 0]

NoDoc == [top |-> "None", key |-> "hands", coll |-> "list", hands |-> <<>>]

NoVerdict == [cli |-> "pending", gui |-> "pending"]

\* ------------------------------------------------------- the two gates

\* a variant without the rate gate
RateGateAlways(t, last) == TRUE

\* current_time - last_api_call >= API_CALL_INTERVAL
RateGateOpen(t, last) == t - last >= API_CALL_INTERVAL

\* a variant with a strict comparison
ElapsedStrict(t, last, period) == t - last > period

\* current_time - last >= period
Elapsed(t, last, period) == t - last >= period

\* a variant with a cooldown longer than the interval between two calls
CooldownElapsedLong(t, last) ==
  Elapsed(t, last, API_CALL_INTERVAL + COOLDOWN_PERIOD)

\* current_time - last_trigger_time >= COOLDOWN_PERIOD
CooldownElapsed(t, last) == Elapsed(t, last, COOLDOWN_PERIOD)

\* last_api_call = current_time
ApiStamp(t) == t

\* a variant that stamps the moment the action is performed
TriggerStampNow(t) == now

\* last_trigger_time = current_time
TriggerStamp(t) == t

\* how a classification ended, for the record of the step: "transport",
\* "service", or the normalizer's verdict on the payload
Outcome(callOutcome, detected) ==
  IF callOutcome # "payload" THEN callOutcome
  ELSE IF detected = "True" THEN "positive"
  ELSE IF detected = "False" THEN "negative"
  ELSE "raise"

Failed(out) == out \in {"transport", "service"}

\* a past time, while it is less than d old at time t
Recent(x, t, d) == IF x # 0 /\ t - x < d THEN x ELSE 0

\* ---------------------------------------------------------------- clock

Advance ==
  /\ mode \in {"cli", "gui"}
  /\ now < MaxTime
  /\ \A th \in Live : th.pc # "call"
  /\ now' = now + 1
  /\ lastStart' = Recent(lastStart, now + 1, API_CALL_INTERVAL)
  /\ lastFailStart' = Recent(lastFailStart, now + 1, API_CALL_INTERVAL)
  /\ lastFire' = Recent(lastFire, now + 1, COOLDOWN_PERIOD)
  /\ ev' = Quiet
  /\ UNCHANGED << mode, threads, last_api_call, last_trigger_time,
                  camera_open, guiVars, allPositive, normVars >>

\* ------------------------------------------------------- the CLI program

\* main up to the loop: read_keys_from_file, cv2.VideoCapture, the locals
CliStart(th, exists, file, camOk) ==
  /\ mode = "cli"
  /\ th.pc = "start"
  /\ LET read == read_keys_from_file(exists, file)
     IN IF read.raised # "-"
        THEN /\ threads' = Becomes(th, Thread("exit1", 0))
             /\ UNCHANGED << keys, camera_open, last_api_call, last_trigger_time >>
        ELSE /\ keys' = read.keys
             /\ IF camOk
                THEN /\ threads' = Becomes(th, Thread("loop", 0))
                     /\ camera_open' = TRUE
                     /\ last_api_call' = 0
                     /\ last_trigger_time' = 0
                ELSE /\ threads' = Becomes(th, Thread("exit1", 0))
                     /\ UNCHANGED << camera_open, last_api_call, last_trigger_time >>
  /\ ev' = Quiet
  /\ UNCHANGED << mode, now, is_running, current_frame, stats, ui_pc,
                  feed_pending, ghostVars, normVars >>

\* one pass of "while True" up to the classification call: cap.read, the
\* ESC test, the rate gate, the stamp and the start of the call
CliTick(th, readOk, key) ==
  /\ mode = "cli"
  /\ th.pc = "loop"
  /\ IF ~readOk \/ key = "ESC"
     THEN /\ threads' = Becomes(th, Thread("ended", 0))
          /\ camera_open' = FALSE
          /\ UNCHANGED << last_api_call, lastStart >>
     ELSE /\ UNCHANGED camera_open
          /\ IF RateGateOpen(now, last_api_call)
             THEN /\ last_api_call' = ApiStamp(now)
                  /\ threads' = Becomes(th, Thread("calling", now))
                  /\ lastStart' = now
             ELSE UNCHANGED << threads, last_api_call, lastStart >>
  /\ ev' = IF ~readOk THEN Event("read", "unavailable", "-")
           ELSE IF key # "ESC" /\ RateGateOpen(now, last_api_call)
           THEN Event("call", "-", "-") ELSE Quiet
  /\ UNCHANGED << mode, now, last_trigger_time, guiVars, lastFire,
                  lastFailStart, allPositive, normVars >>

\* the call returns: post_to_facepp_gesture, detect_thumbs_up, the cooldown
\* gate and simulate_volume_up; an exception leaves the loop through main
CliReturn(th, encoded, kind, actOk) ==
  /\ mode = "cli"
  /\ th.pc = "calling"
  /\ LET resp == ReplyOf(kind)
         payload == post_to_facepp_gesture(encoded, resp)
         detected == detect_thumbs_up(payload)
         out == Outcome(CallOutcome(encoded, resp), detected)
         t == th.current_time
         elapsed == CooldownElapsed(t, last_trigger_time)
         act == IF detected # "True" THEN "-"
                ELSE IF ~elapsed THEN "suppressed"
                ELSE IF actOk THEN "fired" ELSE "failed"
     IN /\ lastFailStart' = IF Failed(out) THEN Recent(t, now, API_CALL_INTERVAL)
                            ELSE lastFailStart
        /\ allPositive' = (allPositive /\ out = "positive")
        /\ last_trigger_time' = IF act = "fired" THEN TriggerStamp(t) ELSE last_trigger_time
        /\ lastFire' = IF act = "fired" THEN now ELSE lastFire
        /\ threads' = Becomes(th, Thread(IF detected \notin {"True", "False"} \/ act = "failed"
                                         THEN "exit1" ELSE "loop", 0))
        /\ ev' = Event("return", out, act)
  /\ UNCHANGED << mode, now, last_api_call, camera_open, guiVars, lastStart,
                  normVars >>

\* Ctrl-C: KeyboardInterrupt leaves the loop, main prints and goes on
CliInterrupt(th) ==
  /\ mode = "cli"
  /\ th.pc \in {"loop", "calling"}
  /\ threads' = Becomes(th, Thread("interrupted", 0))
  /\ ev' = Quiet
  /\ UNCHANGED << mode, now, last_api_call, last_trigger_time, camera_open,
                  guiVars, ghostVars, normVars >>

\* --------------------------------------------------- the GUI: UI thread

\* a variant of stop_detection that does not release the camera
StopEffectsKeepCamera ==
  /\ is_running' = FALSE
  /\ camera_open' = camera_open

\* stop_detection
StopEffects ==
  /\ is_running' = FALSE
  /\ camera_open' = FALSE

\* a variant of start_detection that zeroes the two timestamps
StartStampsReset ==
  /\ last_api_call' = 0
  /\ last_trigger_time' = 0

\* what start_detection does to the two timestamps: nothing
StartStamps ==
  /\ last_api_call' = last_api_call
  /\ last_trigger_time' = last_trigger_time

\* the Start/Stop button: toggle_detection, and start_detection up to
\* thread.start() or stop_detection as a whole
ToggleDetection(camOk) ==
  /\ mode = "gui"
  /\ ui_pc = "idle"
  /\ IF ~is_running
     THEN IF KeysMissing(keys)
          THEN UNCHANGED << threads, camera_open, is_running, current_frame,
                            stats, ui_pc, last_api_call, last_trigger_time >>
          ELSE IF ~camOk
          THEN /\ StopEffects
               /\ UNCHANGED << threads, current_frame, stats, ui_pc,
                               last_api_call, last_trigger_time >>
          ELSE /\ BagCardinality(threads) < MaxThreads
               /\ camera_open' = TRUE
               /\ is_running' = TRUE
               /\ current_frame' = "None"
               /\ stats' = ZeroStats
               /\ StartStamps
               /\ threads' = threads (+) SetToBag({Thread("loop", 0)})
               /\ ui_pc' = "starting"
     ELSE /\ StopEffects
          /\ UNCHANGED << threads, current_frame, stats, ui_pc,
                          last_api_call, last_trigger_time >>
  /\ ev' = Quiet
  /\ UNCHANGED << mode, now, keys, feed_pending, ghostVars, normVars >>

\* the body of update_camera_feed: a frame read and stored while running
FeedEffects(readOk) ==
  IF is_running /\ camera_open
  THEN /\ current_frame' = IF readOk THEN "frame" ELSE current_frame
       /\ feed_pending' = TRUE
       /\ ev' = IF readOk THEN Quiet ELSE Event("read", "unavailable", "-")
  ELSE /\ feed_pending' = FALSE
       /\ ev' = Quiet
       /\ UNCHANGED current_frame

\* the rest of start_detection: the first update_camera_feed (and update_stats)
StartFeed(readOk) ==
  /\ mode = "gui"
  /\ ui_pc = "starting"
  /\ FeedEffects(readOk)
  /\ ui_pc' = "idle"
  /\ UNCHANGED << mode, now, threads, last_api_call, last_trigger_time,
                  camera_open, is_running, stats, keys, ghostVars, normVars >>

\* a scheduled update_camera_feed callback
UpdateCameraFeed(readOk) ==
  /\ mode = "gui"
  /\ ui_pc = "idle"
  /\ feed_pending
  /\ FeedEffects(readOk)
  /\ UNCHANGED << mode, now, threads, last_api_call, last_trigger_time,
                  camera_open, is_running, stats, keys, ui_pc, ghostVars,
                  normVars >>

\* -------------------------------------------- the GUI: detection threads

\* "while self.is_running" (after the sleep of the pass before),
\* current_time = time.time() and the test of the rate gate
GuiGate(th) ==
  /\ mode = "gui"
  /\ th.pc = "loop"
  /\ threads' = IF ~is_running THEN Without(th)
                ELSE IF RateGateOpen(now, last_api_call) /\ current_frame # "unset"
                THEN Becomes(th, Thread("call", now))
                ELSE threads
  /\ ev' = Quiet
  /\ UNCHANGED << mode, now, last_api_call, last_trigger_time, camera_open,
                  guiVars, ghostVars, normVars >>

\* a variant that stamps only when a request is sent
GuiCallStartUnstamped(th) ==
  /\ mode = "gui"
  /\ th.pc = "call"
  /\ lastStart' = now
  /\ IF current_frame = "None"
     THEN /\ threads' = Becomes(th, Thread("loop", 0))
          /\ lastFailStart' = now
          /\ allPositive' = FALSE
          /\ ev' = Event("call", "transport", "-")
          /\ UNCHANGED last_api_call
     ELSE /\ threads' = Becomes(th, Thread("inflight", th.current_time))
          /\ last_api_call' = ApiStamp(th.current_time)
          /\ ev' = Event("call", "-", "-")
          /\ UNCHANGED << lastFailStart, allPositive >>
  /\ UNCHANGED << mode, now, last_trigger_time, camera_open, guiVars, lastFire,
                  normVars >>

\* self.last_api_call = current_time and the start of call_gesture_api on
\* self.current_frame; on a frame that is None cv2.imencode raises, no
\* request is sent and the call is over at once, with None
GuiCallStart(th) ==
  /\ mode = "gui"
  /\ th.pc = "call"
  /\ last_api_call' = ApiStamp(th.current_time)
  /\ lastStart' = now
  /\ IF current_frame = "None"
     THEN /\ threads' = Becomes(th, Thread("loop", 0))
          /\ lastFailStart' = now
          /\ allPositive' = FALSE
          /\ ev' = Event("call", "transport", "-")
     ELSE /\ threads' = Becomes(th, Thread("inflight", th.current_time))
          /\ ev' = Event("call", "-", "-")
          /\ UNCHANGED << lastFailStart, allPositive >>
  /\ UNCHANGED << mode, now, last_trigger_time, camera_open, guiVars, lastFire,
                  normVars >>

\* call_gesture_api returns, detect_thumbs_up, the count of the detection
\* and the test of the cooldown gate; an exception of detect_thumbs_up
\* ends the thread
GuiReturn(th, kind) ==
  /\ mode = "gui"
  /\ th.pc = "inflight"
  /\ LET resp == ReplyOf(kind)
         payload == call_gesture_api("frame", resp)
         detected == gui_detect_thumbs_up(payload)
         out == Outcome(CallOutcome(TRUE, resp), detected)
         t == th.current_time
         elapsed == CooldownElapsed(t, last_trigger_time)
     IN /\ lastFailStart' = IF Failed(out) THEN Recent(t, now, API_CALL_INTERVAL)
                            ELSE lastFailStart
        /\ allPositive' = (allPositive /\ out = "positive")
        /\ stats' = IF detected = "True"
                    THEN [stats EXCEPT !.gestures_detected = @ + 1]
                    ELSE stats
        /\ threads' = IF detected \notin {"True", "False"} THEN Without(th)
                      ELSE IF detected = "True" /\ elapsed
                      THEN Becomes(th, Thread("fire", t))
                      ELSE Becomes(th, Thread("loop", 0))
        /\ ev' = Event("return", out,
                       IF detected # "True" THEN "-"
                       ELSE IF elapsed THEN "elapsed" ELSE "suppressed")
  /\ UNCHANGED << mode, now, last_api_call, last_trigger_time, camera_open,
                  is_running, current_frame, keys, ui_pc, feed_pending,
                  lastStart, lastFire, normVars >>

\* increase_volume (it swallows every failure), the count and the stamp
GuiFire(th, actOk) ==
  /\ mode = "gui"
  /\ th.pc = "fire"
  /\ stats' = [stats EXCEPT !.volume_changes = @ + 1]
  /\ last_trigger_time' = TriggerStamp(th.current_time)
  /\ lastFire' = IF actOk THEN now ELSE lastFire
  /\ threads' = Becomes(th, Thread("loop", 0))
  /\ ev' = Event("fire", "-", IF actOk THEN "fired" ELSE "failed")
  /\ UNCHANGED << mode, now, last_api_call, camera_open, is_running,
                  current_frame, keys, ui_pc, feed_pending, lastStart,
                  lastFailStart, allPositive, normVars >>

\* ------------------------------------------------------------ the system

Init ==
  /\ mode \in {"cli", "gui"}
  /\ now = StartTime
  /\ threads = IF mode = "cli" THEN SetToBag({Thread("start", 0)}) ELSE EmptyBag
  /\ last_api_call = 0
  /\ last_trigger_time = 0
  /\ camera_open = FALSE
  /\ is_running = FALSE
  /\ current_frame = "unset"
  /\ stats = ZeroStats
  /\ \E exists \in BOOLEAN, file \in KeyFiles :
       keys = IF mode = "gui" THEN load_credentials(exists, file) ELSE NoCredentials
  /\ ui_pc = "idle"
  /\ feed_pending = FALSE
  /\ ev = Quiet
  /\ lastStart = 0
  /\ lastFire = 0
  /\ lastFailStart = 0
  /\ allPositive = TRUE
  /\ doc = NoDoc
  /\ verdict = NoVerdict

CliNext ==
  \/ \E th \in Live :
       /\ th.pc = "start"
       /\ \E exists \in BOOLEAN, file \in KeyFiles, camOk \in BOOLEAN :
            CliStart(th, exists, file, camOk)
  \/ \E th \in Live, readOk \in BOOLEAN, key \in {"none", "ESC"} : CliTick(th, readOk, key)
  \/ \E th \in Live, encoded \in BOOLEAN, kind \in ReplyKinds, actOk \in BOOLEAN :
       CliReturn(th, encoded, kind, actOk)
  \/ \E th \in Live : CliInterrupt(th)

GuiNext ==
  \/ \E camOk \in BOOLEAN : ToggleDetection(camOk)
  \/ \E readOk \in BOOLEAN : StartFeed(readOk)
  \/ \E readOk \in BOOLEAN : UpdateCameraFeed(readOk)
  \/ \E th \in Live : GuiGate(th)
  \/ \E th \in Live : GuiCallStart(th)
  \/ \E th \in Live, kind \in ReplyKinds : GuiReturn(th, kind)
  \/ \E th \in Live, actOk \in BOOLEAN : GuiFire(th, actOk)

Next == Advance \/ CliNext \/ GuiNext

Spec == Init /\ [][Next]_vars

\* the system run by a single loop: the CLI, and the GUI as long as Start
\* Detection is not pressed while the detection thread of the session
\* before is still alive
SingleLoop == BagCardinality(threads') <= 1

SingleNext ==
  \/ Advance /\ SingleLoop
  \/ CliNext /\ SingleLoop
  \/ GuiNext /\ SingleLoop

SpecSingle == Init /\ [][SingleNext]_vars

\* requests.post(..., timeout=10): a call in flight ends, with a response
\* or with the timeout raised
CallReturns ==
  \/ \E th \in Live, kind \in ReplyKinds : GuiReturn(th, kind)
  \/ \E th \in Live, encoded \in BOOLEAN, kind \in ReplyKinds, actOk \in BOOLEAN :
       CliReturn(th, encoded, kind, actOk)

\* a thread that is not waiting for the service goes on running
LoopRuns ==
  \/ \E th \in Live : GuiGate(th)
  \/ \E th \in Live : GuiCallStart(th)
  \/ \E th \in Live, actOk \in BOOLEAN : GuiFire(th, actOk)
  \/ \E th \in Live, readOk \in BOOLEAN : CliTick(th, readOk, "none")

\* the system with calls that end and threads that run
SpecLive == Spec /\ WF_vars(CallReturns) /\ WF_vars(LoopRuns)

\* ------------------------------------------------- the normalizer alone

NormInit ==
  /\ mode = "norm"
  /\ now = StartTime
  /\ threads = EmptyBag
  /\ last_api_call = 0
  /\ last_trigger_time = 0
  /\ camera_open = FALSE
  /\ is_running = FALSE
  /\ current_frame = "unset"
  /\ stats = ZeroStats
  /\ keys = NoCredentials
  /\ ui_pc = "idle"
  /\ feed_pending = FALSE
  /\ ev = Quiet
  /\ lastStart = 0
  /\ lastFire = 0
  /\ lastFailStart = 0
  /\ allPositive = TRUE
  /\ \E t \in TopKinds, k \in CollKeys, c \in CollKinds, h \in HandSeqs :
       /\ IsShape(Shape(t, k, c, h))
       /\ doc = Shape(t, k, c, h)
  /\ verdict = NoVerdict

\* both normalizers run on the document
Normalize ==
  /\ mode = "norm"
  /\ verdict = NoVerdict
  /\ verdict' = [cli |-> detect_thumbs_up(MkDoc(doc)),
                 gui |-> gui_detect_thumbs_up(MkDoc(doc))]
  /\ UNCHANGED << mode, loopVars, doc >>

NormNext == Normalize

SpecNorm == NormInit /\ [][NormNext]_vars

\* ----------------------------------------------- the cooldown gate alone
\* Lines 200-204 of the loop on a sequence of positive detections, the tick
\* times counted in tenths of a second: doc holds the tick times and how
\* many are done, verdict whether each one performed the volume action.

DetectionTimes ==
  { ts \in UNION { [1..n -> 0..MaxTenths] : n \in 1..MaxDetections } :
      \A i \in 1..(Len(ts) - 1) : ts[i] < ts[i + 1] }

GateInit ==
  /\ mode = "gate"
  /\ now = 0
  /\ threads = EmptyBag
  /\ last_api_call = 0
  /\ last_trigger_time = 0
  /\ camera_open = FALSE
  /\ is_running = FALSE
  /\ current_frame = "unset"
  /\ stats = ZeroStats
  /\ keys = NoCredentials
  /\ ui_pc = "idle"
  /\ feed_pending = FALSE
  /\ ev = Quiet
  /\ lastStart = 0
  /\ lastFire = 0
  /\ lastFailStart = 0
  /\ allPositive = TRUE
  /\ \E ts \in DetectionTimes : doc = [times |-> ts, done |-> 0]
  /\ verdict = <<>>

\* a tick whose classification returned a positive detection
GateTick ==
  /\ mode = "gate"
  /\ doc.done < Len(doc.times)
  /\ LET t == doc.times[doc.done + 1]
         elapsed == Elapsed(t, last_trigger_time, COOLDOWN_PERIOD * TenthsPerSecond)
     IN /\ now' = t
        /\ last_trigger_time' = IF elapsed THEN TriggerStamp(t) ELSE last_trigger_time
        /\ ev' = Event("return", "positive", IF elapsed THEN "fired" ELSE "suppressed")
        /\ verdict' = Append(verdict, elapsed)
        /\ doc' = [doc EXCEPT !.done = @ + 1]
  /\ UNCHANGED << mode, threads, last_api_call, camera_open, guiVars, ghostVars >>

GateNext == GateTick

SpecGate == GateInit /\ [][GateNext]_vars

\* ------------------------------------------ the classification call alone
\* Calls made one after the other: doc holds for each call whether the
\* frame is encoded and the reply of the service, and how many calls are
\* done; verdict holds for each call done what the CLI function and the GUI
\* method report.

Calls ==
  UNION { [1..n -> [encoded : BOOLEAN, kind : ReplyKinds]] : n \in 1..MaxCalls }

CallInit ==
  /\ mode = "call"
  /\ now = 0
  /\ threads = EmptyBag
  /\ last_api_call = 0
  /\ last_trigger_time = 0
  /\ camera_open = FALSE
  /\ is_running = FALSE
  /\ current_frame = "unset"
  /\ stats = ZeroStats
  /\ keys = NoCredentials
  /\ ui_pc = "idle"
  /\ feed_pending = FALSE
  /\ ev = Quiet
  /\ lastStart = 0
  /\ lastFire = 0
  /\ lastFailStart = 0
  /\ allPositive = TRUE
  /\ \E cs \in Calls : doc = [calls |-> cs, done |-> 0]
  /\ verdict = <<>>

Classify ==
  /\ mode = "call"
  /\ doc.done < Len(doc.calls)
  /\ LET c == doc.calls[doc.done + 1]
         resp == ReplyOf(c.kind)
     IN verdict' = Append(verdict,
                     [cli |-> post_report(c.encoded, resp),
                      gui |-> gui_report(IF c.encoded THEN "frame" ELSE "None", resp)])
  /\ doc' = [doc EXCEPT !.done = @ + 1]
  /\ UNCHANGED << mode, now, threads, last_api_call, last_trigger_time,
                  camera_open, guiVars, ev, ghostVars >>

CallNext == Classify

SpecCall == CallInit /\ [][CallNext]_vars

\* ----------------------------------------------------------- properties

\* a step in which a classification call starts
CallStarts == ev'.op = "call"

\* the stop signal has been given: ESC (or Ctrl-C) ended the CLI loop,
\* stop_detection has set is_running to False
Stopped ==
  \/ mode = "gui" /\ ~is_running
  \/ mode = "cli" /\ \E th \in Live : th.pc \in {"ended", "interrupted"}

\* a step in which the CLI session starts: main enters the loop
CliSessionStarts ==
  /\ mode = "cli"
  /\ CountAt(threads', "start") < CountAt(threads, "start")
  /\ camera_open'

\* a step in which a GUI session starts: start_detection sets is_running
GuiSessionStarts == mode = "gui" /\ ~is_running /\ is_running'

\* C1: the start times of any two classification calls are at least
\* API_CALL_INTERVAL apart, in the CLI loop and in the GUI, across stop and
\* start of a session: a call starts only when no call started less than
\* API_CALL_INTERVAL ago.
C1_RateLimit ==
  [][CallStarts => (lastStart = 0 \/ now' - lastStart >= API_CALL_INTERVAL)]_vars

\* C2: while every classification returns a positive detection, the moments
\* at which the volume action is performed are at least COOLDOWN_PERIOD
\* apart, whatever the latencies of the calls.
C2_Cooldown ==
  [][(ev'.act = "fired" /\ allPositive')
       => (lastFire = 0 \/ now' - lastFire >= COOLDOWN_PERIOD)]_vars

\* C3: at most one classification call is in flight at any moment, whatever
\* the Start/Stop toggles (two calls in flight take two detection loops on
\* the shared timestamps).
C3_OneCallInFlight ==
  CountAt(threads, "inflight") + CountAt(threads, "calling") <= 1

\* C4: once the stop signal has been given, no classification call starts
\* or is acted upon, no volume action is performed and no counter or
\* timestamp changes, as long as the session stays stopped.
C4_NothingAfterStop ==
  [][(Stopped /\ Stopped')
       => /\ ev'.op = "-"
          /\ UNCHANGED << last_api_call, last_trigger_time, stats >>]_vars

\* C5: the normalizer is total: on every generated document it returns
\* True or False and raises nothing.
C5_NormalizerTotal ==
  /\ verdict.cli \in {"pending", "True", "False"}
  /\ verdict.gui \in {"pending", "True", "False"}

\* C6: every step that starts a classification call sets last_api_call to
\* the time of the tick, before the outcome of the call is known (also when
\* the frame cannot be encoded), and no other step changes last_api_call.
C6_ApiStampOnEveryCall ==
  [][/\ CallStarts => last_api_call' = now'
     /\ last_api_call' # last_api_call => CallStarts]_vars

\* C6: a call has failed and last_api_call holds its start time
C6_Witness ==
  /\ ev.op \in {"call", "return"}
  /\ Failed(ev.out)
  /\ last_api_call # 0
  /\ last_api_call = lastFailStart

\* C7: last_trigger_time changes only in a step that goes into the volume
\* action, and its new value is the time of the tick that performs it; a
\* suppressed positive detection, a negative detection and a failed
\* classification leave it unchanged.
C7_TriggerStampOnlyOnFire ==
  [][last_trigger_time' # last_trigger_time
       => /\ ev'.act \in {"fired", "failed"}
          /\ \E th \in Live : /\ th.pc \in {"calling", "fire"}
                              /\ last_trigger_time' = th.current_time]_vars

\* C7: the action was performed after a call that took time, and
\* last_trigger_time is the time of the tick
C7_Witness ==
  /\ ev.act = "fired"
  /\ last_trigger_time # 0
  /\ last_trigger_time < now

\* C8: a classification that ends in a negative detection, a service error
\* or a transport error performs no volume action, leaves last_trigger_time
\* unchanged and leaves the session running: the thread is back at the top
\* of its loop, the camera and is_running are as before.
C8_FailureAbsorbed ==
  [][(ev'.op \in {"call", "return"} /\ ev'.out \in {"negative", "service", "transport"})
       => /\ ev'.act = "-"
          /\ last_trigger_time' = last_trigger_time
          /\ lastFire' = lastFire
          /\ BagCardinality(threads') = BagCardinality(threads)
          /\ CountAt(threads', "loop") = CountAt(threads, "loop") + 1
          /\ UNCHANGED << camera_open, is_running, stats >>]_vars

\* C8: a call has ended in a transport error after an earlier trigger
C8_Witness ==
  /\ ev.op = "return"
  /\ ev.out = "transport"
  /\ last_trigger_time # 0
  /\ \E th \in Live : th.pc = "loop"

\* C9: after a call that failed with a transport or service error, no call
\* starts less than API_CALL_INTERVAL after the start of the failed call.
C9_NoImmediateRetry ==
  [][CallStarts
       => (lastFailStart = 0 \/ now' - lastFailStart >= API_CALL_INTERVAL)]_vars

\* C10 as stated: every start of a session, a restart after a stop
\* included, zeroes last_api_call and last_trigger_time.
C10_ResetAtEveryStart ==
  [][(CliSessionStarts \/ GuiSessionStarts)
       => (last_api_call' = 0 /\ last_trigger_time' = 0)]_vars

\* C10: the CLI loop starts with both timestamps zero; start_detection of
\* the GUI resets the counters and leaves both timestamps as the session
\* before left them.
C10_StampsAtStart ==
  [][/\ CliSessionStarts => (last_api_call' = 0 /\ last_trigger_time' = 0)
     /\ GuiSessionStarts => /\ last_api_call' = last_api_call
                            /\ last_trigger_time' = last_trigger_time
                            /\ stats' = ZeroStats]_vars

\* C10: a session restarted in the GUI with the timestamps of the one before
C10_Witness ==
  /\ mode = "gui"
  /\ is_running
  /\ ui_pc = "starting"
  /\ last_api_call # 0
  /\ last_trigger_time # 0

\* a session has got as far as the camera, the loop or a classification call
SessionBegun ==
  \/ camera_open
  \/ is_running
  \/ \E th \in Live : th.pc \notin {"start", "exit1"}
  \/ last_api_call # 0

\* the lines of a keys file that hold a character other than a space
InkLines(file) ==
  { i \in 1..Len(file) : \E j \in 1..Len(file[i]) : file[i][j] # " " }

\* C11: a camera read that fails during a running session stops the
\* session: in the step of the failed read the loop ends (the CLI loop is
\* left, the GUI is no longer running).
C11_ReadFailureStops ==
  [][ev'.op = "read" => Stopped']_vars

\* C12: a keys file that is missing or holds fewer than two non-empty lines
\* gives no credentials, and without credentials no session begins: the
\* camera is not opened, no loop runs, no classification call is made;
\* when a session has begun the key and the secret are non-empty strings.
C12_NoSessionWithoutKeys ==
  /\ SessionBegun => /\ keys.api_key.t = "str" /\ Len(keys.api_key.v) > 0
                     /\ keys.api_secret.t = "str" /\ Len(keys.api_secret.v) > 0
  /\ ~SessionBegun
       => \A exists \in BOOLEAN, file \in KeyFiles :
            (~exists \/ Cardinality(InkLines(file)) < 2)
              => /\ read_keys_from_file(exists, file).raised # "-"
                 /\ KeysMissing(load_credentials(exists, file))

\* C12: the CLI program has ended on its keys file, before the camera
C12_Witness ==
  /\ mode = "cli"
  /\ \E th \in Live : th.pc = "exit1"
  /\ KeysMissing(keys)
  /\ ~camera_open

\* the normalizers have run on the document
Normalized == mode = "norm" /\ verdict # NoVerdict

\* the document holds a list of hand records, bare or wrapped in a mapping
HasHandList == doc.top = "dict" /\ doc.coll \in {"list", "wrapped"}

\* the first hand record has, under "gesture", a mapping of scores
\* with thumb_up a number above the threshold
FirstHandScores ==
  /\ HasHandList
  /\ Len(doc.hands) >= 1
  /\ LET hand == HandKinds[doc.hands[1]]
     IN /\ hand.t = "dict"
        /\ "gesture" \in DOMAIN hand.v
        /\ hand.v["gesture"].t = "dict"
        /\ "thumb_up" \in DOMAIN hand.v["gesture"].v
        /\ hand.v["gesture"].v["thumb_up"].t = "num"
        /\ hand.v["gesture"].v["thumb_up"].v > SCORE_THRESHOLD

\* the score of the first hand record
FirstHandScore == HandKinds[doc.hands[1]].v["gesture"].v["thumb_up"].v

\* C13 as stated: on a document whose first hand record has a score mapping
\* with thumb_up = s > 50 the normalizer returns present = true and
\* confidence = s.
C13_PresentWithConfidence ==
  (Normalized /\ FirstHandScores /\ doc.key = "hands")
    => /\ verdict.cli = "True"
       /\ ConfidenceOf(Returned(verdict.cli)).t = "num"
       /\ ConfidenceOf(Returned(verdict.cli)).v = FirstHandScore

\* C13: on such a document, with the hands under "hands", both normalizers
\* return the bare value True (with the hands under "hand_gestures" or
\* "result" the CLI one does); the value carries no confidence.
C13_PresentTrue ==
  (Normalized /\ FirstHandScores)
    => /\ doc.key \in {"hands", "hand_gestures", "result"}
            => /\ verdict.cli = "True"
               /\ Returned(verdict.cli) = J_bool(TRUE)
               /\ ConfidenceOf(Returned(verdict.cli)) = J_null
       /\ doc.key = "hands"
            => /\ verdict.gui = "True"
               /\ Returned(verdict.gui) = J_bool(TRUE)

\* C13: True was returned at the first hand record, a record that is not a
\* mapping behind it
C13_Witness ==
  /\ Normalized
  /\ FirstHandScores
  /\ doc.key = "hands"
  /\ Len(doc.hands) = 2
  /\ HandKinds[doc.hands[2]].t = "str"
  /\ verdict.cli = "True"
  /\ verdict.gui = "True"

\* the document holds one hand record whose "gesture" is a string
OneHandLabel ==
  /\ HasHandList
  /\ doc.key = "hands"
  /\ Len(doc.hands) = 1
  /\ HandKinds[doc.hands[1]].t = "dict"
  /\ "gesture" \in DOMAIN HandKinds[doc.hands[1]].v
  /\ HandKinds[doc.hands[1]].v["gesture"].t = "str"

\* C14: for a hand record whose gesture descriptor is a string, the CLI
\* normalizer and the GUI normalizer return True exactly when the string,
\* lower-cased and without underscores and spaces, is thumbup or thumbsup.
C14_LabelDetected ==
  (Normalized /\ OneHandLabel)
    => LET label == NormalizeLabel(HandKinds[doc.hands[1]].v["gesture"].v)
       IN /\ verdict.cli = (IF label \in ThumbLabels THEN "True" ELSE "False")
          /\ verdict.gui = (IF label \in ThumbLabels THEN "True" ELSE "False")

\* the document holds no hand collection under a probed key, or an empty one
NoHands ==
  \/ doc.top \in {"None", "empty"}
  \/ /\ doc.top = "dict"
     /\ \/ doc.key = "other"
        \/ doc.coll = "null"
        \/ doc.coll \in {"list", "wrapped"} /\ doc.hands = <<>>

\* C15: on a None payload, on a document with no hand collection under a
\* probed key and on one with an empty hand collection both normalizers
\* return False.
C15_NoHandsFalse ==
  (Normalized /\ NoHands) => (verdict.cli = "False" /\ verdict.gui = "False")

\* C15: False was returned on {"hands": []}
C15_Witness ==
  /\ Normalized
  /\ doc.top = "dict"
  /\ doc.key = "hands"
  /\ doc.coll = "list"
  /\ doc.hands = <<>>
  /\ verdict.cli = "False"
  /\ verdict.gui = "False"

\* the gate has been given the detections at the times ts, all of them done
GateDone(ts) == mode = "gate" /\ doc.times = ts /\ doc.done = Len(ts)

\* the time lastTriggerAt holds after a detection at t that fired or not
StampAfter(t, fired) == IF fired THEN t ELSE 0

CauseOf(i) == CallOutcome(doc.calls[i].encoded, ReplyOf(doc.calls[i].kind))

\* what the caller can tell from a report: the line printed and whether
\* the value returned is None
Tag(report) == << report.printed, report.returned.t = "null" >>

\* C17: two classification calls that end differently (a transport
\* failure, a failure reported by the service, a payload) are reported
\* differently, by the CLI function and by the GUI method; in particular a
\* transport failure is not reported as a service error.
C17_ThreeOutcomes ==
  mode = "call"
    => \A i, j \in 1..Len(verdict) :
         CauseOf(i) # CauseOf(j)
           => /\ Tag(verdict[i].cli) # Tag(verdict[j].cli)
              /\ Tag(verdict[i].gui) # Tag(verdict[j].gui)

\* a step in which the volume action was attempted and failed
ActionFails == ev'.act = "failed"

\* C18: a failed volume action changes neither the counters nor
\* lastTriggerAt, and the loop goes on to its next tick.
C18_FailedActionNoEffect ==
  [][ActionFails
       => /\ stats' = stats
          /\ last_trigger_time' = last_trigger_time
          /\ \E th \in Live' : th.pc = "loop"]_vars

\* the UI task is at a write of self.current_frame: the store of the frame
\* read in update_camera_feed (run from start_detection or as a scheduled
\* callback)
UiWritesFrame ==
  /\ mode = "gui"
  /\ is_running /\ camera_open
  /\ ui_pc = "starting" \/ (ui_pc = "idle" /\ feed_pending)

\* a detection thread is at its read of self.current_frame, the argument of
\* call_gesture_api
ThreadReadsFrame == mode = "gui" /\ \E th \in Live : th.pc = "call"

\* a detection thread is at its write of self.last_api_call while another
\* one is at the read of it in the rate gate
StampReadWhileWritten ==
  /\ mode = "gui"
  /\ \E th \in Live : th.pc = "call"
  /\ \/ \E th \in Live : th.pc = "loop"
     \/ CountAt(threads, "call") >= 2

\* C19: no mutex exists in the app, so exclusion can only come from the
\* accesses being made by one task: the UI task is never at a write of the
\* most recent frame while a detection thread is at its read of it, and no
\* task is at a write of a timestamp while another is at a read of it.
C19_NoReadWhileWrite ==
  /\ ~(UiWritesFrame /\ ThreadReadsFrame)
  /\ ~StampReadWhileWritten

\* a classification call is in flight
InFlight == \E th \in Live : th.pc \in {"inflight", "calling"}

\* a loop is at the top of a pass, its next tick
AtTick == \E th \in Live : th.pc = "loop"

\* the session is over: stopped, or the CLI program has exited
Over == Stopped \/ (mode = "cli" /\ \E th \in Live : th.pc = "exit1")

\* C20: a classification call in flight returns, and unless the session is
\* over the loop then reaches its next tick.
C20_CallThenNextTick == InFlight ~> (Over \/ AtTick)

\* gesture.get("thumb_up", 0)
MappingScore(gesture) == DictGet(gesture, "thumb_up", J_num(0))

\* the descriptor is a mapping whose thumb_up score is a number or absent
HasScoreMapping(gesture) == gesture.t = "dict" /\ MappingScore(gesture).t = "num"

\* the document holds under "hands" a single hand record, a mapping
OneHandRecord ==
  /\ HasHandList
  /\ doc.key = "hands"
  /\ Len(doc.hands) = 1
  /\ HandKinds[doc.hands[1]].t = "dict"

\* C21: a hand whose descriptor is a mapping of scores is a match exactly
\* when its thumb_up score is above 50; a score of 50, a lower score and a
\* mapping without thumb_up are no match. For the CLI normalizer and for
\* the GUI normalizer, each on the descriptor it reads.
C21_ScoreThreshold ==
  (Normalized /\ OneHandRecord)
    => LET hand == HandKinds[doc.hands[1]]
       IN /\ HasScoreMapping(GestureOf(hand))
               => /\ verdict.cli \in {"True", "False"}
                  /\ (verdict.cli = "True")
                       = (MappingScore(GestureOf(hand)).v > SCORE_THRESHOLD)
          /\ HasScoreMapping(GuiGestureOf(hand))
               => /\ verdict.gui \in {"True", "False"}
                  /\ (verdict.gui = "True")
                       = (MappingScore(GuiGestureOf(hand)).v > SCORE_THRESHOLD)

\* C21: a single hand with a score of exactly 50 was read as no match by
\* both normalizers
C21_Witness ==
  /\ Normalized
  /\ OneHandRecord
  /\ doc.hands = <<2>>
  /\ MappingScore(GestureOf(HandKinds[2])).v = SCORE_THRESHOLD
  /\ verdict.cli = "False"
  /\ verdict.gui = "False"

\* the hand record is a positive match of the CLI normalizer
PositiveHand(hand) == CheckHand(hand) = "True"

\* the document holds a list of hand records under a key the CLI probes
CliHandList ==
  /\ HasHandList
  /\ doc.key \in {"hands", "hand_gestures", "result"}

\* C22: across the hands the CLI normalizer is an OR: it returns True
\* exactly when at least one hand record is a positive match, whatever the
\* order of the records and whatever the other records hold.
C22_ShortCircuitOr ==
  (Normalized /\ CliHandList)
    => (verdict.cli = "True")
         = (\E i \in 1..Len(doc.hands) : PositiveHand(HandKinds[doc.hands[i]]))

\* the value under the first of the keys that is in the mapping, and
\* default when none of them is
RECURSIVE FirstFound(_, _, _)
FirstFound(d, ks, default) ==
  IF ks = <<>> THEN default
  ELSE IF Head(ks) \in DOMAIN d.v THEN d.v[Head(ks)]
  ELSE FirstFound(d, Tail(ks), default)

\* the hand collection by the first key found, and its hands field when it
\* is a mapping
FirstFoundHands(payload) ==
  LET found == FirstFound(payload, <<"hands", "hand_gestures", "result">>, J_list(<<>>))
  IN IF found.t = "dict" THEN DictGet(found, "hands", J_list(<<>>)) ELSE found

\* two collections are the same: both hold nothing, or they are equal
SameValue(a, b) ==
  \/ ~Truthy(a) /\ ~Truthy(b)
  \/ a.t = b.t /\ a = b

\* the document is a mapping
IsMapping == doc.top \in {"dict", "two", "both"}

\* C23: the hand collection a normalizer works on is the value under the
\* first of the keys hands, hand_gestures, result that is in the document
\* (its hands field when that value is a mapping); a later key is looked at
\* only when no earlier key is there. For the CLI and the GUI normalizer.
C23_FirstKeyFound ==
  (Normalized /\ IsMapping)
    => /\ SameValue(HandsOf(MkDoc(doc)), FirstFoundHands(MkDoc(doc)))
       /\ SameValue(GuiHandsOf(MkDoc(doc)), FirstFoundHands(MkDoc(doc)))

\* the hand records of the document that are mappings
HandRecords ==
  IF HasHandList \/ doc.top \in {"two", "both"}
  THEN { HandKinds[doc.hands[i]] : i \in 1..Len(doc.hands) } \cap
       { HandKinds[k] : k \in { j \in HandIds : HandKinds[j].t = "dict" } }
  ELSE {}

\* the descriptor by the first key found
FirstFoundGesture(hand) ==
  FirstFound(hand, <<"gesture", "gesture_type", "label">>, J_null)

\* C24: the descriptor a normalizer reads from a hand record is the value
\* under the first of the keys gesture, gesture_type, label that is in the
\* record; a later key is looked at only when no earlier key is there. For
\* the CLI and the GUI normalizer.
C24_FirstDescriptorFound ==
  Normalized
    => \A hand \in HandRecords :
         /\ SameValue(GestureOf(hand), FirstFoundGesture(hand))
         /\ SameValue(GuiGestureOf(hand), FirstFoundGesture(hand))

\* less than the interval has passed since the last call was stamped
GateClosed == now - last_api_call < API_CALL_INTERVAL

\* a pass of a loop up to its rate gate: a whole pass of the CLI loop, the
\* head of a pass of a running GUI detection thread
Tick ==
  \/ \E th \in Live, readOk \in BOOLEAN, key \in {"none", "ESC"} : CliTick(th, readOk, key)
  \/ is_running /\ \E th \in Live : GuiGate(th)

\* the threads at a call or at the volume action
Busy(b) == CountAt(b, "call") + CountAt(b, "calling") + CountAt(b, "inflight")
             + CountAt(b, "fire")

\* C25: a tick made while t - lastApiCallAt < apiInterval starts no
\* classification call, fires no volume action and leaves lastApiCallAt,
\* lastTriggerAt and the two counters as they were.
C25_ClosedGateNoOp ==
  [][(GateClosed /\ Tick)
       => /\ ev'.op \notin {"call", "return", "fire"}
          /\ Busy(threads') = Busy(threads)
          /\ last_api_call' = last_api_call
          /\ last_trigger_time' = last_trigger_time
          /\ stats' = stats]_vars

\* C25: a loop is at the top of a pass, a call of this session was stamped
\* less than the interval ago and has returned
C25_Witness ==
  /\ GateClosed
  /\ last_api_call = now
  /\ ev.op = "return"
  /\ \E th \in Live : th.pc = "loop"
  /\ mode = "gui" => is_running
  /\ ENABLED Tick

\* C26: in the GUI a positive detection adds exactly one to
\* gestures_detected whether the cooldown has elapsed or not,
\* volume_changes grows only in a step that fires the action (by one), so
\* 0 <= volume_changes <= gestures_detected in every state, and both
\* counters are zero when a session starts.
C26_Counters ==
  [][mode = "gui"
       => /\ (ev'.op = "return" /\ ev'.out = "positive")
               => stats'.gestures_detected = stats.gestures_detected + 1
          /\ (stats'.volume_changes # stats.volume_changes /\ ~GuiSessionStarts)
               => /\ ev'.op = "fire"
                  /\ stats'.volume_changes = stats.volume_changes + 1
          /\ 0 <= stats'.volume_changes
          /\ stats'.volume_changes <= stats'.gestures_detected
          /\ GuiSessionStarts => stats' = ZeroStats]_vars

\* C27: in the GUI a classification call is started, and lastApiCallAt
\* set, only while a frame captured in this session is stored: never while
\* current_frame is None.
C27_CallOnlyWithFrame ==
  [][(mode = "gui" /\ (CallStarts \/ last_api_call' # last_api_call))
       => current_frame = "frame"]_vars

\* C28 as stated: with a single loop the cooldown gate never suppresses a
\* positive detection, and in the GUI gestures_detected equals
\* volume_changes in every reachable state.
C28_CountersEqual ==
  [][/\ ev'.act # "suppressed"
     /\ mode = "gui" => stats'.gestures_detected = stats'.volume_changes]_vars

\* C28: with a single loop the cooldown gate never suppresses a positive
\* detection; in the GUI gestures_detected exceeds volume_changes by one
\* while the detection thread is between the count of the detection and
\* the count of the volume change, and equals it in every other state.
C28_NeverSuppressed ==
  [][/\ ev'.act # "suppressed"
     /\ mode = "gui"
          => stats'.gestures_detected
               = stats'.volume_changes + CountAt(threads', "fire")]_vars

\* C28: a second positive detection of a GUI session has fired, one
\* interval after the first
C28_Witness ==
  /\ mode = "gui"
  /\ ev.op = "fire"
  /\ stats.gestures_detected = 2
  /\ stats.volume_changes = 2
  /\ last_trigger_time = StartTime + API_CALL_INTERVAL

\* C29: on every document that holds a list of hand records under hands,
\* hand_gestures or result, the GUI normalizer and the CLI normalizer give
\* the same result.
C29_SameNormalizer ==
  (Normalized /\ CliHandList) => verdict.gui = verdict.cli

\* the session has ended: the CLI loop was left (ESC, a failed read, an
\* interrupt or an exception), the GUI session was stopped or did not start
SessionEnded ==
  \/ mode = "cli" /\ \E th \in Live : th.pc \in {"ended", "interrupted", "exit1"}
  \/ mode = "gui" /\ ~is_running

\* C30: after a session has ended, on whatever way, the camera is released.
C30_CameraReleased == SessionEnded => ~camera_open

\* C31: in the GUI is_running is true only while a camera handle is held;
\* a stop leaves is_running false and the camera released; is_running
\* becomes true, and a detection thread is started, only in a start that
\* found the credentials and opened the camera, so a failed start leaves
\* is_running false and starts no thread.
C31_RunningHoldsCamera ==
  [][mode = "gui"
       => /\ is_running' => camera_open'
          /\ (is_running /\ ~is_running') => ~camera_open'
          /\ (~is_running /\ is_running') => (camera_open' /\ ~KeysMissing(keys))
          /\ BagCardinality(threads') > BagCardinality(threads)
               => (~is_running /\ is_running' /\ ~KeysMissing(keys))
          /\ (~is_running /\ ~is_running') => ~camera_open']_vars

\* C31: a session was started and then stopped: the detection thread is
\* still there, is_running is false and the camera is released
C31_Witness ==
  /\ mode = "gui"
  /\ ui_pc = "idle"
  /\ ~is_running
  /\ ~camera_open
  /\ threads # EmptyBag
  /\ ~KeysMissing(keys)

=============================================================================
